---- MODULE Spec2Model ----
(***************************************************************************)
(* AstroSynth data scripts.                                                *)
(*                                                                         *)
(*   scripts/migrate_to_sqlite.py  the loader: JSON array -> SQLite table  *)
(*   scripts/test.py               the fetcher: one HTTP GET -> JSON file  *)
(*                                                                         *)
(* The loader is modelled statement group by statement group (pc), the     *)
(* SQLite store by the part of its behaviour the script relies on: the     *)
(* planets table with its NOT NULL / UNIQUE constraints and column type    *)
(* affinities, the transaction opened by the first INSERT of a batch, the  *)
(* commit at the end of a batch and the rollback of an open transaction    *)
(* when the process ends without commit.                                   *)
(*                                                                         *)
(* JSON values are records [k, n, s]: k the kind, n the number (an integer *)
(* for "int", tenths for "real": values with one decimal place), s the     *)
(* characters of a "text".  Texts are sequences of one-character strings.  *)
(***************************************************************************)
EXTENDS Integers, Sequences, FiniteSets, TLC

\* ------------------------------------------------------------------ bounds
\* longest array of the mixed-record input family
ShortLen == 2
\* longest array of the failure-interleaving input family
LogLen == 7
\* length of the long (multi-batch) inputs
ExampleLen == 250
\* loader runs in a row on the same input file
MaxRuns == 2
\* longest HTTP response body drawn from the body alphabet
MaxBody == 3

\* ------------------------------------------------------- program constants
batch_size == 100
LogLimit == 5
ExcerptLen == 200
OkStatus == 200

\* --------------------------------------------------------------- JSON values
JNull == [k |-> "null", n |-> 0, s |-> <<>>]
JAbsent == [k |-> "absent", n |-> 0, s |-> <<>>]
JInt(n) == [k |-> "int", n |-> n, s |-> <<>>]
JReal(t) == [k |-> "real", n |-> t, s |-> <<>>]
JText(s) == [k |-> "text", n |-> 0, s |-> s]
JList == [k |-> "list", n |-> 0, s |-> <<>>]

Min(a, b) == IF a < b THEN a ELSE b

DigitChars == <<"0", "1", "2", "3", "4", "5", "6", "7", "8", "9">>

IsDigit(c) == \E d \in 1..10 : DigitChars[d] = c

DigitVal(c) == (CHOOSE d \in 1..10 : DigitChars[d] = c) - 1

\* str(n) of a natural number
RECURSIVE Digits(_)
Digits(n) ==
    IF n < 10 THEN <<DigitChars[n + 1]>>
    ELSE Digits(n \div 10) \o <<DigitChars[(n % 10) + 1]>>

RECURSIVE ParseNat(_)
ParseNat(s) ==
    IF s = <<>> THEN 0
    ELSE ParseNat(SubSeq(s, 1, Len(s) - 1)) * 10 + DigitVal(s[Len(s)])

AllDigits(s) == s # <<>> /\ \A p \in 1..Len(s) : IsDigit(s[p])

\* a text SQLite reads as an integer literal
IsIntLit(s) == AllDigits(s)

\* a text SQLite reads as a real literal (one decimal place)
IsRealLit(s) ==
    /\ Len(s) >= 3
    /\ s[Len(s) - 1] = "."
    /\ IsDigit(s[Len(s)])
    /\ AllDigits(SubSeq(s, 1, Len(s) - 2))

\* tenths of the real a real literal denotes
RealLitTenths(s) == ParseNat(SubSeq(s, 1, Len(s) - 2)) * 10 + DigitVal(s[Len(s)])

\* the text SQLite gives a real
RealText(t) == Digits(t \div 10) \o <<".">> \o Digits(t % 10)

\* ------------------------------------------------------------ the schema
Columns ==
    <<"pl_name", "hostname", "sy_dist", "pl_orbper", "pl_rade", "pl_bmasse",
      "pl_eqt", "pl_orbsmax", "pl_orbeccen", "st_spectype", "st_teff",
      "st_rad", "st_mass", "disc_year", "discoverymethod", "ra", "dec",
      "default_flag">>

ColumnSet == {Columns[c] : c \in 1..Len(Columns)}

TextColumns == {"pl_name", "hostname", "st_spectype", "discoverymethod"}

IntegerColumns == {"disc_year", "default_flag"}

ColumnAffinity(c) ==
    IF c \in TextColumns THEN "TEXT"
    ELSE IF c \in IntegerColumns THEN "INTEGER"
    ELSE "REAL"

IndexNames ==
    {"idx_pl_name", "idx_disc_year", "idx_discoverymethod", "idx_pl_rade",
     "idx_pl_bmasse", "idx_st_teff", "idx_sy_dist"}

\* the value a column of the given affinity stores for a bound value
ApplyAffinity(aff, v) ==
    IF aff = "TEXT" THEN
        IF v.k = "int" THEN JText(Digits(v.n))
        ELSE IF v.k = "real" THEN JText(RealText(v.n))
        ELSE v
    ELSE IF aff = "REAL" THEN
        IF v.k = "int" THEN JReal(v.n * 10)
        ELSE IF v.k = "text" /\ IsIntLit(v.s) THEN JReal(ParseNat(v.s) * 10)
        ELSE IF v.k = "text" /\ IsRealLit(v.s) THEN JReal(RealLitTenths(v.s))
        ELSE v
    ELSE
        IF v.k = "real" /\ v.n % 10 = 0 THEN JInt(v.n \div 10)
        ELSE IF v.k = "text" /\ IsIntLit(v.s) THEN JInt(ParseNat(v.s))
        ELSE IF v.k = "text" /\ IsRealLit(v.s) THEN
            IF RealLitTenths(v.s) % 10 = 0 THEN JInt(RealLitTenths(v.s) \div 10)
            ELSE JReal(RealLitTenths(v.s))
        ELSE v

\* ------------------------------------------------------- array elements
\* An element of the input array: a JSON object (a Python dict) with a value
\* or JAbsent under each of the 18 keys, or something that is not an object.
Obj(given) ==
    [isObject |-> TRUE,
     fields |-> [c \in ColumnSet |-> IF c \in DOMAIN given THEN given[c] ELSE JAbsent]]

NonObj == [isObject |-> FALSE, fields |-> [c \in ColumnSet |-> JAbsent]]

\* planet.get(key, default) of a dict
Get(planet, key, default) ==
    IF planet.fields[key].k = "absent" THEN default ELSE planet.fields[key]

\* mutant: default_flag read like the other keys
ParamsNoDefault(planet) == [c \in ColumnSet |-> Get(planet, c, JNull)]

\* the 18 parameters bound to the INSERT
Params(planet) ==
    [c \in ColumnSet |->
        IF c = "default_flag" THEN Get(planet, c, JInt(1)) ELSE Get(planet, c, JNull)]

\* the row the INSERT stores for the bound parameters
StoredRow(params, id) ==
    [id |-> id, cols |-> [c \in ColumnSet |-> ApplyAffinity(ColumnAffinity(c), params[c])]]

Names(tbl) == {tbl[r].cols["pl_name"] : r \in 1..Len(tbl)}

\* mutant: the table has no UNIQUE constraint on pl_name
ExecuteNoUnique(tbl, planet) ==
    IF ~planet.isObject THEN
        [exc |-> "Exception", kind |-> "attr", table |-> tbl]
    ELSE IF \E c \in ColumnSet : Params(planet)[c].k = "list" THEN
        [exc |-> "Exception", kind |-> "bind", table |-> tbl]
    ELSE
        LET row == StoredRow(Params(planet), Len(tbl) + 1) IN
        IF row.cols["pl_name"].k = "null" THEN
            [exc |-> "IntegrityError", kind |-> "notnull", table |-> tbl]
        ELSE
            [exc |-> "none", kind |-> "ok", table |-> Append(tbl, row)]

\* mutant: a repeated name overwrites the stored row (an upsert)
ExecuteUpsert(tbl, planet) ==
    IF ~planet.isObject THEN
        [exc |-> "Exception", kind |-> "attr", table |-> tbl]
    ELSE IF \E c \in ColumnSet : Params(planet)[c].k = "list" THEN
        [exc |-> "Exception", kind |-> "bind", table |-> tbl]
    ELSE
        LET row == StoredRow(Params(planet), Len(tbl) + 1) IN
        IF row.cols["pl_name"].k = "null" THEN
            [exc |-> "IntegrityError", kind |-> "notnull", table |-> tbl]
        ELSE IF row.cols["pl_name"] \in Names(tbl) THEN
            [exc |-> "none", kind |-> "ok",
             table |-> [r \in 1..Len(tbl) |->
                          IF tbl[r].cols["pl_name"] = row.cols["pl_name"]
                          THEN [tbl[r] EXCEPT !.cols = row.cols] ELSE tbl[r]]]
        ELSE
            [exc |-> "none", kind |-> "ok", table |-> Append(tbl, row)]

\* cursor.execute(INSERT ...) on one element, against the rows the connection
\* sees: the exception raised ("none" when the row was stored), its cause,
\* and the rows afterwards.
Execute(tbl, planet) ==
    IF ~planet.isObject THEN
        [exc |-> "Exception", kind |-> "attr", table |-> tbl]
    ELSE IF \E c \in ColumnSet : Params(planet)[c].k = "list" THEN
        [exc |-> "Exception", kind |-> "bind", table |-> tbl]
    ELSE
        LET row == StoredRow(Params(planet), Len(tbl) + 1) IN
        IF row.cols["pl_name"].k = "null" THEN
            [exc |-> "IntegrityError", kind |-> "notnull", table |-> tbl]
        ELSE IF row.cols["pl_name"] \in Names(tbl) THEN
            [exc |-> "IntegrityError", kind |-> "unique", table |-> tbl]
        ELSE
            [exc |-> "none", kind |-> "ok", table |-> Append(tbl, row)]

\* -------------------------------------------------------------- state
VARIABLES
    jsonFile,    \* the source file: [exists, kind, items]
    store,       \* the database file on disk: [exists, hasTable, rows, indexes]
    pc,          \* the loader's position
    planets,     \* json.load's result
    table,       \* the rows the open connection sees (with uncommitted ones)
    i,           \* start of the current batch
    idx,         \* records of the array handled so far
    inserted,
    skipped,
    count,       \* the SELECT COUNT(*) of the report
    exitCode,    \* -1 while running
    events,      \* per handled record: its outcome and the line printed
    fatalAt,     \* the statement group an exception escaped from
    startStore,  \* the store as the run found it
    run,         \* runs started on this input file
    prev,        \* the previous run's end: [done, rows, inserted, skipped]
    fpc,         \* the fetcher's position
    response,    \* the HTTP response: [raised, status, text]
    requests,    \* GETs issued
    data,        \* resp.json()
    outFile,     \* Exoplanate.json: [exists, text]
    oldFile,     \* Exoplanate.json as the run found it
    ferror       \* the fetcher's error text (<<>>: none)

loaderVars ==
    <<jsonFile, store, pc, planets, table, i, idx, inserted, skipped, count,
      exitCode, events, fatalAt, startStore, run, prev>>

fetcherVars == <<fpc, response, requests, data, outFile, oldFile, ferror>>

vars == <<loaderVars, fetcherVars>>


\* ------------------------------------------------------------- inputs
A == <<"A">>
B == <<"B">>

\* the array elements of the mixed-record family
GoodA == Obj("pl_name" :> JText(A) @@ "sy_dist" :> JReal(15) @@ "default_flag" :> JInt(1))
OtherA == Obj("pl_name" :> JText(A) @@ "sy_dist" :> JReal(25))
NullFlagB == Obj("pl_name" :> JText(B) @@ "disc_year" :> JInt(2020) @@ "default_flag" :> JNull)
NoName == Obj("hostname" :> JText(<<"H">>))
NullName == Obj("pl_name" :> JNull @@ "sy_dist" :> JReal(15))
ListValA == Obj("pl_name" :> JText(A) @@ "sy_dist" :> JList)
WrongTypes ==
    Obj("pl_name" :> JInt(5) @@ "sy_dist" :> JText(<<"1", "2">>)
        @@ "disc_year" :> JReal(20200) @@ "hostname" :> JText(<<"x">>)
        @@ "ra" :> JText(<<"x">>) @@ "dec" :> JInt(7) @@ "pl_rade" :> JText(<<"2", ".", "5">>))
TextFive == Obj("pl_name" :> JText(<<"5">>) @@ "disc_year" :> JReal(20205))

Elems == {GoodA, OtherA, NullFlagB, NoName, NullName, ListValA, WrongTypes, TextFive, NonObj}

LogElems == {GoodA, NoName, ListValA}

SeqsUpTo(S, n) == UNION {[1..m -> S] : m \in 0..n}

ShortInputs == SeqsUpTo(Elems, ShortLen)

LogInputs == SeqsUpTo(LogElems, LogLen)

\* record j of a long input: its own name P<j>
Planet(j) ==
    Obj("pl_name" :> JText(<<"P">> \o Digits(j)) @@ "disc_year" :> JInt(2000 + (j % 20)))

\* ExampleLen records, two of them repeating an earlier name
ExampleInput ==
    [j \in 1..ExampleLen |->
        IF j = batch_size + 50 THEN Planet(1)
        ELSE IF j = ExampleLen THEN Planet(batch_size + 20)
        ELSE Planet(j)]

\* ExampleLen records, the one at position p not an object
BrokenAt(p) == [j \in 1..ExampleLen |-> IF j = p THEN NonObj ELSE Planet(j)]

\* a non-object behind more than LogLimit skips
LateNonObj == <<NoName, NoName, ListValA, NoName, NoName, NoName, NonObj, GoodA>>

LongInputs ==
    {ExampleInput, BrokenAt(batch_size + 30), BrokenAt(2 * batch_size + 30), LateNonObj}

ArrayFile(items) == [exists |-> TRUE, kind |-> "array", items |-> items]

MissingFile == [exists |-> FALSE, kind |-> "array", items |-> <<>>]

MalformedFile == [exists |-> TRUE, kind |-> "malformed", items |-> <<>>]

ScalarFile == [exists |-> TRUE, kind |-> "scalar", items |-> <<>>]

\* the files the store's earlier contents are varied for
VariedFiles == {MissingFile, MalformedFile, ScalarFile} \cup {ArrayFile(x) : x \in ShortInputs}

SourceFiles == VariedFiles \cup {ArrayFile(x) : x \in LogInputs \cup LongInputs}

\* the rows a completed load of the array leaves
RECURSIVE TableOf(_)
TableOf(items) ==
    IF items = <<>> THEN <<>>
    ELSE Execute(TableOf(SubSeq(items, 1, Len(items) - 1)), items[Len(items)]).table

NoStore == [exists |-> FALSE, hasTable |-> FALSE, rows |-> <<>>, indexes |-> {}]

LoadedStore(items) ==
    [exists |-> TRUE, hasTable |-> TRUE, rows |-> TableOf(items), indexes |-> IndexNames]

OldQ == Obj("pl_name" :> JText(<<"Q">>) @@ "sy_dist" :> JReal(990))
OldA == Obj("pl_name" :> JText(A) @@ "sy_dist" :> JReal(770) @@ "default_flag" :> JInt(0))

PriorStores == {NoStore, LoadedStore(<<>>), LoadedStore(<<OldQ, OldA>>)}

NoResponse == [raised |-> FALSE, status |-> 0, text |-> <<>>]
NoData == [t |-> "none", n |-> 0, items |-> <<>>]
NoFile == [exists |-> FALSE, text |-> <<>>]
NoPrev == [done |-> FALSE, rows |-> <<>>, inserted |-> 0, skipped |-> 0]

FetcherIdle ==
    /\ fpc = "idle"
    /\ response = NoResponse
    /\ requests = 0
    /\ data = NoData
    /\ outFile = NoFile
    /\ oldFile = NoFile
    /\ ferror = <<>>

Init ==
    /\ \E f \in SourceFiles, st \in PriorStores :
        /\ st = NoStore \/ f \in VariedFiles
        /\ jsonFile = f
        /\ store = st
        /\ startStore = st
    /\ pc = "main"
    /\ planets = <<>>
    /\ table = <<>>
    /\ i = 0
    /\ idx = 0
    /\ inserted = 0
    /\ skipped = 0
    /\ count = 0
    /\ exitCode = -1
    /\ events = <<>>
    /\ fatalAt = "none"
    /\ run = 1
    /\ prev = NoPrev
    /\ FetcherIdle

\* ------------------------------------------------------------ the loader
\* an exception reaches main's handler (or sys.exit(1) is called): the process
\* ends with code 1 and the connection, if any, is dropped without commit
Fatal(at) ==
    /\ pc' = "exited"
    /\ exitCode' = 1
    /\ fatalAt' = at

\* the rows on disk once a connection is dropped with a transaction open
Rollback(st) == st.rows

\* mutant: nothing is committed at the end of a batch
CommitNothing(st, tbl) == st

\* conn.commit()
Commit(st, tbl) == [st EXCEPT !.rows = tbl]

\* mutant: an existing table is kept (CREATE TABLE IF NOT EXISTS, no DROP)
KeepExisting(st) ==
    IF st.hasTable THEN st
    ELSE [exists |-> TRUE, hasTable |-> TRUE, rows |-> <<>>, indexes |-> IndexNames]

\* DROP TABLE IF EXISTS, CREATE TABLE, the seven CREATE INDEX
DropAndCreate(st) ==
    [exists |-> TRUE, hasTable |-> TRUE, rows |-> <<>>, indexes |-> IndexNames]

\* mutant: the limit is off by one
ShouldLogOffByOne(sk) == sk < LogLimit

\* the test guarding a warning or error line
ShouldLog(sk) == sk <= LogLimit

BatchEnd == Min(i + batch_size, Len(planets))

\* mutant: the store is recreated before the source file is looked for
CheckSourceLate ==
    /\ pc = "main"
    /\ store' = [exists |-> TRUE, hasTable |-> TRUE, rows |-> <<>>, indexes |-> IndexNames]
    /\ IF jsonFile.exists
       THEN pc' = "read" /\ UNCHANGED <<exitCode, fatalAt>>
       ELSE pc' = "exited" /\ exitCode' = 1 /\ fatalAt' = "missing"
    /\ UNCHANGED <<jsonFile, planets, table, i, idx, inserted, skipped,
                   count, events, startStore, run, prev, fetcherVars>>

CheckSource ==
    /\ pc = "main"
    /\ IF jsonFile.exists
       THEN pc' = "read" /\ UNCHANGED <<exitCode, fatalAt>>
       ELSE Fatal("missing")
    /\ UNCHANGED <<jsonFile, store, planets, table, i, idx, inserted, skipped,
                   count, events, startStore, run, prev, fetcherVars>>

\* mutant: the store is recreated before the source file is read
ReadJsonDropFirst ==
    /\ pc = "read"
    /\ store' = [exists |-> TRUE, hasTable |-> TRUE, rows |-> <<>>, indexes |-> IndexNames]
    /\ IF jsonFile.kind = "array"
       THEN /\ planets' = jsonFile.items
            /\ pc' = "create"
            /\ UNCHANGED <<exitCode, fatalAt>>
       ELSE /\ pc' = "exited" /\ exitCode' = 1 /\ fatalAt' = "read"
            /\ UNCHANGED planets
    /\ UNCHANGED <<jsonFile, table, i, idx, inserted, skipped, count,
                   events, startStore, run, prev, fetcherVars>>

ReadJson ==
    /\ pc = "read"
    /\ IF jsonFile.kind = "array"
       THEN /\ planets' = jsonFile.items
            /\ pc' = "create"
            /\ UNCHANGED <<exitCode, fatalAt>>
       ELSE /\ Fatal("read")
            /\ UNCHANGED planets
    /\ UNCHANGED <<jsonFile, store, table, i, idx, inserted, skipped, count,
                   events, startStore, run, prev, fetcherVars>>

CreateDatabase ==
    /\ pc = "create"
    /\ store' = DropAndCreate(store)
    /\ table' = store'.rows
    /\ i' = 0
    /\ idx' = 0
    /\ inserted' = 0
    /\ skipped' = 0
    /\ pc' = "loop"
    /\ UNCHANGED <<jsonFile, planets, count, exitCode, events, fatalAt,
                   startStore, run, prev, fetcherVars>>

Event(kind, logged, id) == [kind |-> kind, logged |-> logged, id |-> id]

InsertRecord ==
    /\ pc = "loop"
    /\ idx < BatchEnd
    /\ LET planet == planets[idx + 1]
           r == Execute(table, planet)
           sk == skipped + 1
       IN  IF r.exc = "none" THEN
               /\ table' = r.table
               /\ inserted' = inserted + 1
               /\ events' = Append(events, Event("ok", "", Len(r.table)))
               /\ UNCHANGED <<skipped, pc, exitCode, fatalAt>>
           ELSE IF r.exc = "IntegrityError" THEN
               /\ skipped' = sk
               /\ events' = Append(events,
                                Event(r.kind, IF ShouldLog(sk) THEN "WARNING" ELSE "", 0))
               /\ UNCHANGED <<table, inserted, pc, exitCode, fatalAt>>
           ELSE IF ShouldLog(sk) /\ ~planet.isObject THEN
               \* planet.get in the error line raises inside the handler
               /\ skipped' = sk
               /\ events' = Append(events, Event(r.kind, "", 0))
               /\ table' = Rollback(store)
               /\ Fatal("insert")
               /\ UNCHANGED inserted
           ELSE
               /\ skipped' = sk
               /\ events' = Append(events,
                                Event(r.kind, IF ShouldLog(sk) THEN "ERROR" ELSE "", 0))
               /\ UNCHANGED <<table, inserted, pc, exitCode, fatalAt>>
    /\ idx' = idx + 1
    /\ UNCHANGED <<jsonFile, store, planets, i, count, startStore, run, prev,
                   fetcherVars>>

CommitBatch ==
    /\ pc = "loop"
    /\ i < Len(planets)
    /\ idx = BatchEnd
    /\ store' = Commit(store, table)
    /\ i' = i + batch_size
    /\ UNCHANGED <<jsonFile, pc, planets, table, idx, inserted, skipped, count,
                   exitCode, events, fatalAt, startStore, run, prev, fetcherVars>>

Report ==
    /\ pc = "loop"
    /\ i >= Len(planets)
    /\ count' = Len(table)
    /\ pc' = "done"
    /\ exitCode' = 0
    /\ UNCHANGED <<jsonFile, store, planets, table, i, idx, inserted, skipped,
                   events, fatalAt, startStore, run, prev, fetcherVars>>

\* the script is started again on the same files
Rerun ==
    /\ pc \in {"done", "exited"}
    /\ run < MaxRuns
    /\ prev' = [done |-> pc = "done", rows |-> store.rows,
                inserted |-> inserted, skipped |-> skipped]
    /\ run' = run + 1
    /\ startStore' = store
    /\ pc' = "main"
    /\ planets' = <<>>
    /\ table' = <<>>
    /\ i' = 0
    /\ idx' = 0
    /\ inserted' = 0
    /\ skipped' = 0
    /\ count' = 0
    /\ exitCode' = -1
    /\ events' = <<>>
    /\ fatalAt' = "none"
    /\ UNCHANGED <<jsonFile, store, fetcherVars>>

Next ==
    \/ CheckSource
    \/ ReadJson
    \/ CreateDatabase
    \/ InsertRecord
    \/ CommitBatch
    \/ Report
    \/ Rerun

Spec == Init /\ [][Next]_vars


\* ----------------------------------------------------------- the fetcher
\* A parsed JSON value of a response body: [t, n, items], t one of "num", "arr".
JNum(n) == [t |-> "num", n |-> n, items |-> <<>>]
JArr(items) == [t |-> "arr", n |-> 0, items |-> items]

ParseFail == [ok |-> FALSE, v |-> NoData, rest |-> <<>>]

\* the digits a text starts with
RECURSIVE LeadingDigits(_)
LeadingDigits(s) ==
    IF s = <<>> \/ ~IsDigit(Head(s)) THEN <<>>
    ELSE <<Head(s)>> \o LeadingDigits(Tail(s))

\* one JSON value at the start of s (numbers and arrays): [ok, v, rest]
RECURSIVE ParseValue(_), ParseElems(_, _)
ParseValue(s) ==
    IF s = <<>> THEN ParseFail
    ELSE IF IsDigit(Head(s)) THEN
        LET d == LeadingDigits(s) IN
        IF Len(d) > 1 /\ Head(d) = "0" THEN ParseFail
        ELSE [ok |-> TRUE, v |-> JNum(ParseNat(d)), rest |-> SubSeq(s, Len(d) + 1, Len(s))]
    ELSE IF Head(s) = "[" THEN
        IF Len(s) >= 2 /\ s[2] = "]"
        THEN [ok |-> TRUE, v |-> JArr(<<>>), rest |-> SubSeq(s, 3, Len(s))]
        ELSE ParseElems(Tail(s), <<>>)
    ELSE ParseFail

ParseElems(s, acc) ==
    LET r == ParseValue(s) IN
    IF ~r.ok \/ r.rest = <<>> THEN ParseFail
    ELSE IF Head(r.rest) = "," THEN ParseElems(Tail(r.rest), Append(acc, r.v))
    ELSE IF Head(r.rest) = "]"
        THEN [ok |-> TRUE, v |-> JArr(Append(acc, r.v)), rest |-> Tail(r.rest)]
    ELSE ParseFail

\* resp.json(): the whole body is one JSON value
ParseJson(s) ==
    LET r == ParseValue(s) IN
    IF r.ok /\ r.rest = <<>> THEN r ELSE ParseFail

Spaces(n) == [p \in 1..n |-> " "]

\* json.dump(v, indent=2) at nesting level lvl
RECURSIVE Dump(_, _), DumpItems(_, _)
Dump(v, lvl) ==
    IF v.t = "num" THEN Digits(v.n)
    ELSE IF v.items = <<>> THEN <<"[", "]">>
    ELSE <<"[", "\n">> \o DumpItems(v.items, lvl + 1) \o <<"\n">> \o Spaces(2 * lvl) \o <<"]">>

DumpItems(items, lvl) ==
    IF Len(items) = 1 THEN Spaces(2 * lvl) \o Dump(items[1], lvl)
    ELSE DumpItems(SubSeq(items, 1, Len(items) - 1), lvl)
             \o <<",", "\n">> \o Spaces(2 * lvl) \o Dump(items[Len(items)], lvl)

BodyAlphabet == {"[", "]", "1", ","}

\* a body longer than the excerpt of the error text
LongBody == [p \in 1..(ExcerptLen + 5) |-> IF p <= ExcerptLen THEN "x" ELSE "y"]

Bodies == SeqsUpTo(BodyAlphabet, MaxBody) \cup {LongBody, <<"<", "h", ">">>}

Statuses == {200, 204, 404, 500}

Responses ==
    {[raised |-> FALSE, status |-> st, text |-> b] : st \in Statuses, b \in Bodies}
        \cup {[raised |-> TRUE, status |-> 0, text |-> <<>>]}

OldFile == [exists |-> TRUE, text |-> <<"[", "]">>]

HttpPrefix == <<"H", "T", "T", "P", " ">>

\* f"HTTP {resp.status_code}: {resp.text[:200]}"
ErrorText(resp) ==
    HttpPrefix \o Digits(resp.status) \o <<":", " ">>
        \o SubSeq(resp.text, 1, Min(ExcerptLen, Len(resp.text)))

\* mutant: every status below 400 is taken for a success
StatusBelow400(resp) == resp.status < 400

\* resp.status_code != 200 is false
StatusOk(resp) == resp.status = OkStatus

FetchInit ==
    /\ fpc = "start"
    /\ response = NoResponse
    /\ requests = 0
    /\ data = NoData
    /\ outFile \in {NoFile, OldFile}
    /\ oldFile = outFile
    /\ ferror = <<>>
    /\ jsonFile = MissingFile
    /\ store = NoStore
    /\ startStore = NoStore
    /\ pc = "idle"
    /\ planets = <<>>
    /\ table = <<>>
    /\ i = 0
    /\ idx = 0
    /\ inserted = 0
    /\ skipped = 0
    /\ count = 0
    /\ exitCode = -1
    /\ events = <<>>
    /\ fatalAt = "none"
    /\ run = 1
    /\ prev = NoPrev

\* requests.get(...): a response, or a transport exception
Request ==
    /\ fpc = "start"
    /\ requests' = requests + 1
    /\ \E resp \in Responses :
        /\ response' = resp
        /\ IF resp.raised
           THEN fpc' = "failed" /\ ferror' = <<"t", "r", "a", "n", "s", "p", "o", "r", "t">>
           ELSE fpc' = "got" /\ UNCHANGED ferror
    /\ UNCHANGED <<data, outFile, oldFile, loaderVars>>

CheckStatus ==
    /\ fpc = "got"
    /\ IF StatusOk(response)
       THEN fpc' = "parse" /\ UNCHANGED ferror
       ELSE fpc' = "failed" /\ ferror' = ErrorText(response)
    /\ UNCHANGED <<response, requests, data, outFile, oldFile, loaderVars>>

\* resp.json(), then len(data) for the two count lines
ParseBody ==
    /\ fpc = "parse"
    /\ LET r == ParseJson(response.text) IN
       IF ~r.ok THEN
           /\ fpc' = "failed"
           /\ ferror' = <<"j", "s", "o", "n">>
           /\ UNCHANGED data
       ELSE IF r.v.t # "arr" THEN
           /\ fpc' = "failed"
           /\ ferror' = <<"l", "e", "n">>
           /\ data' = r.v
       ELSE
           /\ fpc' = "write"
           /\ data' = r.v
           /\ UNCHANGED ferror
    /\ UNCHANGED <<response, requests, outFile, oldFile, loaderVars>>

WriteFile ==
    /\ fpc = "write"
    /\ outFile' = [exists |-> TRUE, text |-> Dump(data, 0)]
    /\ fpc' = "done"
    /\ UNCHANGED <<response, requests, data, oldFile, ferror, loaderVars>>

FetchNext ==
    \/ Request
    \/ CheckStatus
    \/ ParseBody
    \/ WriteFile

FetchSpec == FetchInit /\ [][FetchNext]_vars


\* ------------------------------------------------------------ properties
\* the skips among the first j handled records
SkipRank(j) == Cardinality({q \in 1..j : events[q].kind # "ok"})

\* the outcomes of the given kinds among the first j handled records
KindRank(j, kinds) == Cardinality({q \in 1..j : events[q].kind \in kinds})

\* the columns a record's INSERT stores
StoredCols(planet) == StoredRow(Params(planet), 0).cols

IsNumber(v) == v.k \in {"int", "real"}

Tenths(v) == IF v.k = "int" THEN v.n * 10 ELSE v.n

\* the same JSON value, a number compared by what it is worth
SameValue(a, b) == a = b \/ (IsNumber(a) /\ IsNumber(b) /\ Tenths(a) = Tenths(b))

Contains(hay, needle) ==
    \E p \in 0..(Len(hay) - Len(needle)) : SubSeq(hay, p + 1, p + Len(needle)) = needle

\* C1: when a run completes, the table holds as many rows as were inserted,
\* every record was either inserted or skipped, the skip counter counts
\* exactly the rejected inserts, and the example input with two repeated
\* names ends with all but two records stored.
C1_RowCount ==
    pc = "done" =>
        /\ count = inserted
        /\ Len(store.rows) = inserted
        /\ inserted + skipped = Len(planets)
        /\ Len(events) = Len(planets)
        /\ skipped = KindRank(Len(events), {"unique", "notnull", "bind", "attr"})
        /\ \A j \in 1..Len(planets) :
            (~planets[j].isObject \/ Get(planets[j], "pl_name", JNull).k = "null")
                => events[j].kind # "ok"
        /\ planets = ExampleInput =>
            inserted = ExampleLen - 2 /\ skipped = 2 /\ count = ExampleLen - 2

C1_Witness ==
    /\ pc = "done"
    /\ planets = ExampleInput
    /\ inserted = ExampleLen - 2
    /\ skipped = 2
    /\ Len(store.rows) = ExampleLen - 2

\* the first record of the array that carries the given stored name
FirstWithName(name) ==
    CHOOSE j \in 1..Len(planets) :
        /\ planets[j].isObject
        /\ StoredCols(planets[j])["pl_name"] = name
        /\ \A q \in 1..(j - 1) :
            ~(planets[q].isObject /\ StoredCols(planets[q])["pl_name"] = name)

\* C2 as stated: names are unique in the table, and at the end of a run
\* every stored name carries the values of the first record of the array
\* that had that name.
C2_FirstRecordWins ==
    /\ Cardinality(Names(table)) = Len(table)
    /\ pc = "done" =>
        \A r \in 1..Len(store.rows) :
            store.rows[r].cols =
                StoredCols(planets[FirstWithName(store.rows[r].cols["pl_name"])])

\* C2 amended: names are unique in the table in every state; a record whose
\* name is already stored is skipped and every stored row keeps the values
\* of the record that inserted it; at the end every stored name carries the
\* values of the first record with that name whose insert was not rejected
\* for another reason (an earlier record with the name that failed to bind
\* stores nothing).
C2_FirstInsertedWins ==
    /\ Cardinality(Names(table)) = Len(table)
    /\ Cardinality(Names(store.rows)) = Len(store.rows)
    /\ \A j \in 1..Len(events) :
        /\ (events[j].kind = "ok" /\ events[j].id <= Len(table)) =>
            table[events[j].id].cols = StoredCols(planets[j])
        /\ events[j].kind = "unique" =>
            \E q \in 1..(j - 1) :
                /\ events[q].kind = "ok"
                /\ StoredCols(planets[q])["pl_name"] = StoredCols(planets[j])["pl_name"]
    /\ pc = "done" =>
        \A j \in 1..Len(events) :
            events[j].kind = "ok" =>
                \A q \in 1..(j - 1) :
                    (planets[q].isObject
                        /\ StoredCols(planets[q])["pl_name"] = StoredCols(planets[j])["pl_name"])
                    => events[q].kind = "bind"

C2_Witness ==
    /\ pc = "done"
    /\ \E j \in 1..Len(events) :
        /\ events[j].kind = "unique"
        /\ \E q \in 1..(j - 1) :
            /\ events[q].kind = "ok"
            /\ StoredCols(planets[q])["pl_name"] = StoredCols(planets[j])["pl_name"]
            /\ planets[q] # planets[j]
            /\ store.rows[events[q].id].cols = StoredCols(planets[q])

\* C3: a second completed run on the same file ends with the rows, the row
\* count and the counters of the first: every run starts from an empty
\* table, so every stored row comes from a record of this run.
C3_Rerun ==
    /\ (pc = "done" /\ run >= 2 /\ prev.done) =>
        /\ store.rows = prev.rows
        /\ count = Len(prev.rows)
        /\ inserted = prev.inserted
        /\ skipped = prev.skipped
    /\ pc = "done" =>
        \A r \in 1..Len(store.rows) :
            \E j \in 1..Len(events) :
                /\ events[j].kind = "ok"
                /\ events[j].id = store.rows[r].id
                /\ store.rows[r].cols["pl_name"] = StoredCols(planets[j])["pl_name"]

C3_Witness ==
    /\ pc = "done"
    /\ run >= 2
    /\ prev.done
    /\ Len(prev.rows) > 0
    /\ store.rows = prev.rows
    /\ inserted = Len(prev.rows)
    /\ skipped = prev.skipped

\* C4 as stated: a failure while inserting one record never leaves the
\* batch loop, whatever the element is.
C4_NeverLeavesLoop == ~(pc = "exited" /\ fatalAt = "insert")

\* C5: a run ended by a fatal error in batch k exits with code 1 and the
\* table on disk holds the rows inserted in batches 1..k-1, unchanged.
C5_CommittedBatchesStay ==
    (pc = "exited" /\ fatalAt = "insert") =>
        /\ exitCode = 1
        /\ table = store.rows
        /\ Len(store.rows) = KindRank(i, {"ok"})
        /\ \A j \in 1..i :
            events[j].kind = "ok" =>
                /\ events[j].id <= Len(store.rows)
                /\ store.rows[events[j].id].cols = StoredCols(planets[j])

C5_Witness ==
    /\ pc = "exited"
    /\ fatalAt = "insert"
    /\ i = 2 * batch_size
    /\ idx > i + 1
    /\ Len(store.rows) = 2 * batch_size

\* C6: with the source file missing the loader exits with a non-zero code
\* and the destination store is as it was before the run.
C6_MissingSource ==
    ~jsonFile.exists =>
        /\ pc \in {"main", "exited", "idle"}
        /\ store = startStore
        /\ pc = "exited" => (exitCode = 1 /\ fatalAt = "missing")

C6_Witness ==
    /\ pc = "exited"
    /\ fatalAt = "missing"
    /\ exitCode = 1
    /\ Len(store.rows) > 0

\* C7: a response whose status is not 200 makes the fetcher fail with an
\* error text that contains the status code, after exactly one GET and
\* without writing the output file; the file is written only after a 200
\* response has been parsed.
C7_NonOkResponse ==
    /\ requests <= 1
    /\ (fpc \notin {"idle", "start"} /\ ~response.raised /\ response.status # OkStatus) =>
        /\ requests = 1
        /\ fpc \in {"got", "failed"}
        /\ outFile = oldFile
        /\ fpc = "failed" => Contains(ferror, Digits(response.status))
    /\ fpc = "failed" => outFile = oldFile
    /\ outFile # oldFile =>
        /\ fpc = "done"
        /\ response.status = OkStatus
        /\ ParseJson(response.text).ok

C7_Witness ==
    /\ fpc = "failed"
    /\ response.status = 404
    /\ Len(response.text) > ExcerptLen
    /\ oldFile.exists
    /\ outFile = oldFile
    /\ requests = 1

\* C8 as stated: the stored flag is 1 whenever the record carries no
\* default_flag value, and every other field is stored as the value the
\* record gives, or null when the record has no such field.
C8_Verbatim ==
    \A j \in 1..Len(events) :
        (events[j].kind = "ok" /\ events[j].id <= Len(table)) =>
            LET row == table[events[j].id].cols
                p == planets[j]
            IN  /\ p.fields["default_flag"].k \in {"absent", "null"} =>
                    row["default_flag"] = JInt(1)
                /\ \A c \in ColumnSet \ {"default_flag"} :
                    SameValue(row[c], Get(p, c, JNull))

\* C8 amended: the stored flag is 1 whenever the record has no default_flag
\* key, and an explicit null flag is stored as null; every other field is
\* null when the record has no such key, and otherwise the value the record
\* gives when that value is null or of the column's declared type; a number
\* given for a text column is stored as text, and a text that reads as a
\* number given for a numeric column is stored as that number.
C8_StoredFields ==
    \A j \in 1..Len(events) :
        (events[j].kind = "ok" /\ events[j].id <= Len(table)) =>
            LET row == table[events[j].id].cols
                p == planets[j]
            IN  /\ p.fields["default_flag"].k = "absent" => row["default_flag"] = JInt(1)
                /\ p.fields["default_flag"].k = "null" => row["default_flag"] = JNull
                /\ \A c \in ColumnSet \ {"default_flag"} :
                    LET v == p.fields[c] IN
                    /\ v.k \in {"absent", "null"} => row[c] = JNull
                    /\ (v.k = "text" /\ c \in TextColumns) => row[c] = v
                    /\ (IsNumber(v) /\ c \notin TextColumns) => SameValue(row[c], v)
                    /\ (IsNumber(v) /\ c \in TextColumns) => row[c].k = "text"
                    /\ (v.k = "text" /\ c \notin TextColumns) =>
                        IF IsIntLit(v.s) \/ IsRealLit(v.s) THEN IsNumber(row[c]) ELSE row[c] = v

C8_Witness ==
    /\ pc = "done"
    /\ \E j \in 1..Len(events) :
        /\ events[j].kind = "ok"
        /\ planets[j].fields["default_flag"].k = "absent"
        /\ store.rows[events[j].id].cols["default_flag"] = JInt(1)
        /\ store.rows[events[j].id].cols["pl_name"] # planets[j].fields["pl_name"]
    /\ \E j \in 1..Len(events) :
        /\ events[j].kind = "ok"
        /\ planets[j].fields["default_flag"].k = "null"
        /\ store.rows[events[j].id].cols["default_flag"] = JNull

\* C9 as stated: the table is dropped and recreated before the source file
\* is read, so a run that fails on malformed JSON has already discarded the
\* previous table contents.
C9_DropBeforeRead ==
    /\ (pc = "exited" /\ fatalAt = "read") =>
        (store.hasTable /\ store.rows = <<>> /\ store.indexes = IndexNames)
    /\ pc = "create" =>
        (store.hasTable /\ store.rows = <<>> /\ store.indexes = IndexNames)

\* C9 amended: the source file is read and parsed before the store is
\* opened: until the array is in memory the store is as the run found it,
\* so a run that fails on malformed JSON leaves the previous table
\* contents in place; the table and its seven indexes are recreated after
\* the read and before the first insert.
C9_ReadBeforeDrop ==
    /\ (pc = "exited" /\ fatalAt = "read") => store = startStore
    /\ pc \in {"main", "read", "create"} => store = startStore
    /\ pc = "create" => planets = jsonFile.items
    /\ pc \in {"loop", "done"} =>
        /\ planets = jsonFile.items
        /\ store.exists /\ store.hasTable /\ store.indexes = IndexNames
        /\ Len(store.rows) <= Len(events)

C9_Witness ==
    /\ pc = "exited"
    /\ fatalAt = "read"
    /\ jsonFile.kind = "malformed"
    /\ Len(store.rows) > 0
    /\ store = startStore

\* C10 as stated: the k-th uniqueness violation prints a warning exactly
\* when k <= 5 and the k-th failure of any other kind prints an error line
\* exactly when k <= 5, each kind counted on its own.  (Stated for the
\* repeated names and for the records whose values cannot be bound; the
\* claim asks the same of every other failure.)
C10_PerKindLimit ==
    \A j \in 1..Len(events) :
        /\ events[j].kind = "unique" =>
            (events[j].logged = "WARNING" <=> KindRank(j, {"unique"}) <= LogLimit)
        /\ events[j].kind = "bind" =>
            (events[j].logged = "ERROR"
                <=> KindRank(j, {"notnull", "bind", "attr"}) <= LogLimit)

\* C10 amended: one counter bounds both kinds of line: the k-th skipped
\* record of a run, whatever its failure, prints its line exactly when
\* k <= 5; the line is a warning for a constraint violation (a repeated
\* name or a missing name) and an error line for any other failure of an
\* object record, while an element that is not an object prints no line;
\* so a run never prints more than 5 warning and error lines in all.
C10_SharedLimit ==
    /\ \A j \in 1..Len(events) :
        /\ events[j].kind \in {"unique", "notnull"} =>
            events[j].logged = (IF SkipRank(j) <= LogLimit THEN "WARNING" ELSE "")
        /\ events[j].kind = "bind" =>
            events[j].logged = (IF SkipRank(j) <= LogLimit THEN "ERROR" ELSE "")
        /\ events[j].kind \in {"ok", "attr"} => events[j].logged = ""
    /\ Cardinality({j \in 1..Len(events) : events[j].logged # ""}) <= LogLimit

C10_Witness ==
    \E j \in 1..Len(events) :
        /\ events[j].kind = "unique"
        /\ KindRank(j, {"unique"}) = 1
        /\ events[j].logged = ""
        /\ KindRank(j, {"bind"}) = LogLimit

====
